---------------------------- MODULE Spec2Model ----------------------------
(***************************************************************************)
(* Model of validators/validators.py: the four validation rules (OneOf,    *)
(* NumberValidator, StringValidator, PathValidator) and the descriptor     *)
(* protocol of their base class Validator (__set_name__, __get__,          *)
(* __set__).                                                               *)
(*                                                                         *)
(* Python values are records [t |-> type name, v |-> payload].  A str is a *)
(* sequence of one-character strings, a float is kept as twice its value   *)
(* (so that x.0 and x.5 are exact), a pathlib.Path is the sequence of its  *)
(* parts, a list is the sequence of its items, a callable is its name.     *)
(***************************************************************************)
EXTENDS Integers, Sequences, FiniteSets, TLC

VARIABLES
    rules,      \* rule id -> the Validator instance (its attributes)
    fs,         \* the filesystem os.path.exists / os.path.isfile look at
    classes,    \* class id -> the class body: <<field name, rule id>> in order
    objs,       \* object id -> the instance's attributes (its __dict__)
    last,       \* the call in progress: what was called and how it ended
    hist        \* history: accepted writes and the names bound, for the claims

vars == <<rules, fs, classes, objs, last, hist>>

----------------------------------------------------------------------------
(* Bounds of the model *)

MaxLen == 3       \* longest str drawn as an input
MaxNum == 1       \* numbers drawn lie in -MaxNum .. MaxNum
MaxOpts == 2      \* most positional arguments given to a constructor

----------------------------------------------------------------------------
(* Python values *)

PyNone == [t |-> "NoneType", v |-> 0]
PyInt(n) == [t |-> "int", v |-> n]
PyFloat(h) == [t |-> "float", v |-> h]
PyBool(b) == [t |-> "bool", v |-> b]
PyStr(s) == [t |-> "str", v |-> s]
PyPath(parts) == [t |-> "Path", v |-> parts]
PyList(items) == [t |-> "list", v |-> items]
PyFunc(name) == [t |-> "function", v |-> name]

Alphabet == {"a", "A", ".", "/"}
Texts(n) == UNION {[1..k -> Alphabet] : k \in 0..n}

SetMax(S) == CHOOSE x \in S : \A y \in S : y <= x

\* isinstance(value, types): bool is a subclass of int
isinstance(value, types) ==
    \/ value.t \in types
    \/ value.t = "bool" /\ "int" \in types

\* the number a numeric value stands for, doubled
NumKey(x) ==
    CASE x.t = "float" -> x.v
      [] x.t = "int" -> 2 * x.v
      [] x.t = "bool" -> IF x.v THEN 2 ELSE 0

IsNumeric(x) == x.t \in {"int", "float", "bool"}

\* a == b
PyEq(a, b) ==
    IF IsNumeric(a) /\ IsNumeric(b) THEN NumKey(a) = NumKey(b)
    ELSE a.t = b.t /\ a.v = b.v

\* x is None
IsNone(x) == x.t = "NoneType"

\* hash(x) succeeds
Hashable(x) == x.t # "list"

\* set(items): the first of several equal items is the one kept
PySet(items) ==
    {items[i] : i \in {j \in DOMAIN items : \A k \in 1..(j - 1) : ~PyEq(items[k], items[j])}}

\* value in s, for a set s
PyIn(value, s) == \E x \in s : PyEq(x, value)

\* str(path): the parts joined by the separator
RECURSIVE JoinParts(_)
JoinParts(parts) ==
    IF parts = <<>> THEN <<>>
    ELSE IF Len(parts) = 1 THEN parts[1]
    ELSE parts[1] \o <<"/">> \o JoinParts(Tail(parts))

str(value) ==
    IF value.t = "Path"
    THEN PyStr(IF value.v = <<>> THEN <<".">> ELSE JoinParts(value.v))
    ELSE value

\* os.fspath(value), as the os.path functions apply it
fspath(value) == str(value).v

\* len(value) of a str
len(value) == Len(value.v)

----------------------------------------------------------------------------
(* The filesystem and the library functions the rules call *)

FsNames == {<<"a", ".", "a">>, <<"a">>}
FsKinds == {"absent", "file", "dir"}

ospath_exists(files, value) ==
    /\ fspath(value) \in DOMAIN files
    /\ files[fspath(value)] # "absent"

ospath_isfile(files, value) ==
    /\ fspath(value) \in DOMAIN files
    /\ files[fspath(value)] = "file"

RFind(s, c) ==
    LET I == {i \in 1..Len(s) : s[i] = c}
    IN  IF I = {} THEN 0 ELSE SetMax(I)

\* os.path.splitext(value)[1]
ospath_splitext_ext(value) ==
    LET p == fspath(value)
        sepIndex == RFind(p, "/")
        dotIndex == RFind(p, ".")
    IN  PyStr(IF /\ dotIndex > sepIndex
                 /\ \E k \in (sepIndex + 1)..(dotIndex - 1) : p[k] # "."
              THEN SubSeq(p, dotIndex, Len(p))
              ELSE <<>>)

LowerChars == {"a"}
UpperChars == {"A"}

\* str.islower(value) of a str
str_islower(value) ==
    /\ \E i \in DOMAIN value.v : value.v[i] \in LowerChars
    /\ \A i \in DOMAIN value.v : value.v[i] \notin UpperChars

\* predicate(value): "True", "False", or the exception the call raises
CallPredicate(predicate, value, files) ==
    CASE predicate.v = "isfile" ->
            IF ospath_isfile(files, value) THEN "True" ELSE "False"
      [] predicate.v = "islower" ->
            IF value.t # "str" THEN "TypeError"
            ELSE IF str_islower(value) THEN "True" ELSE "False"

----------------------------------------------------------------------------
(* Outcomes: the exception raised ("None" for a normal return) and the     *)
(* library calls made on the way, in order.                                *)

Return(trace) == [exc |-> "None", trace |-> trace]
Raise(exc, trace) == [exc |-> exc, trace |-> trace]
Ev(what, value) == <<[call |-> what, arg |-> value]>>


----------------------------------------------------------------------------
(* OneOf *)

NoRule == [cls |-> "None"]
Unbound == ""

Constructed(self) == [exc |-> "None", self |-> self]
ConstructionFailed(exc) == [exc |-> exc, self |-> NoRule]

\* OneOf(*options): set(options) hashes every option
OneOf_init(options) ==
    IF \E i \in DOMAIN options : ~Hashable(options[i])
    THEN ConstructionFailed("TypeError")
    ELSE Constructed([cls |-> "OneOf", options |-> PySet(options),
                      private_name |-> Unbound])

\* mutant: membership by identity of type and payload, so 1 is not in {1.0}
OneOf_validate_strict(self, value) ==
    IF ~Hashable(value) THEN Raise("TypeError", <<>>)
    ELSE IF value \notin self.options THEN Raise("ValueError", <<>>)
    ELSE Return(<<>>)

\* `value not in self.options` hashes value first
OneOf_validate(self, value) ==
    IF ~Hashable(value) THEN Raise("TypeError", <<>>)
    ELSE IF ~PyIn(value, self.options) THEN Raise("ValueError", <<>>)
    ELSE Return(<<>>)

----------------------------------------------------------------------------
(* NumberValidator *)

NumberValidator_init(minvalue, maxvalue) ==
    Constructed([cls |-> "NumberValidator", minvalue |-> minvalue,
                 maxvalue |-> maxvalue, private_name |-> Unbound])

\* mutant: the bounds are exclusive
NumberValidator_validate_exclusive(self, value) ==
    IF ~isinstance(value, {"int", "float"}) THEN Raise("TypeError", <<>>)
    ELSE IF ~IsNone(self.minvalue) /\ NumKey(value) <= NumKey(self.minvalue)
    THEN Raise("ValueError", <<>>)
    ELSE IF ~IsNone(self.maxvalue) /\ NumKey(value) >= NumKey(self.maxvalue)
    THEN Raise("ValueError", <<>>)
    ELSE Return(<<>>)

NumberValidator_validate(self, value) ==
    IF ~isinstance(value, {"int", "float"}) THEN Raise("TypeError", <<>>)
    ELSE IF ~IsNone(self.minvalue) /\ NumKey(value) < NumKey(self.minvalue)
    THEN Raise("ValueError", <<>>)
    ELSE IF ~IsNone(self.maxvalue) /\ NumKey(value) > NumKey(self.maxvalue)
    THEN Raise("ValueError", <<>>)
    ELSE Return(<<>>)

----------------------------------------------------------------------------
(* StringValidator *)

StringValidator_init(minsize, maxsize, predicate) ==
    Constructed([cls |-> "StringValidator", minsize |-> minsize,
                 maxsize |-> maxsize, predicate |-> predicate,
                 private_name |-> Unbound])

\* mutant: the predicate is called before the length checks
StringValidator_validate_predicate_first(self, value, files) ==
    IF ~isinstance(value, {"str"}) THEN Raise("TypeError", <<>>)
    ELSE
    LET called == IF IsNone(self.predicate) THEN <<>> ELSE Ev("predicate", value)
        r == IF IsNone(self.predicate) THEN "True"
             ELSE CallPredicate(self.predicate, value, files)
    IN  IF r = "False" THEN Raise("ValueError", called)
        ELSE IF r # "True" THEN Raise(r, called)
        ELSE IF ~IsNone(self.minsize) /\ len(value) < self.minsize.v
        THEN Raise("ValueError", called)
        ELSE IF ~IsNone(self.maxsize) /\ len(value) > self.maxsize.v
        THEN Raise("ValueError", called)
        ELSE Return(called)

StringValidator_validate(self, value, files) ==
    IF ~isinstance(value, {"str"}) THEN Raise("TypeError", <<>>)
    ELSE IF ~IsNone(self.minsize) /\ len(value) < self.minsize.v
    THEN Raise("ValueError", <<>>)
    ELSE IF ~IsNone(self.maxsize) /\ len(value) > self.maxsize.v
    THEN Raise("ValueError", <<>>)
    ELSE IF IsNone(self.predicate) THEN Return(<<>>)
    ELSE LET called == Ev("predicate", value)
             r == CallPredicate(self.predicate, value, files)
         IN  IF r = "True" THEN Return(called)
             ELSE IF r = "False" THEN Raise("ValueError", called)
             ELSE Raise(r, called)

----------------------------------------------------------------------------
(* PathValidator *)

\* PathValidator(*suffixes, predicate=None): every positional argument is a
\* suffix, the predicate is keyword-only; set(suffixes) hashes each argument
PathValidator_init(suffixes, predicate) ==
    IF \E i \in DOMAIN suffixes : ~Hashable(suffixes[i])
    THEN ConstructionFailed("TypeError")
    ELSE Constructed([cls |-> "PathValidator", predicate |-> predicate,
                      suffixes |-> PySet(suffixes), private_name |-> Unbound])

\* lines 217-225: the checks made on `value` itself
PathValidator_checks(self, value, files, before) ==
    LET probed == before \o Ev("exists", value)
    IN  IF ~ospath_exists(files, value) THEN Raise("FileExistsError", probed)
        ELSE
        LET r == IF IsNone(self.predicate) THEN "True"
                 ELSE CallPredicate(self.predicate, value, files)
            called == IF IsNone(self.predicate) THEN probed
                      ELSE probed \o Ev("predicate", value)
        IN  IF r = "False" THEN Raise("ValueError", called)
            ELSE IF r # "True" THEN Raise(r, called)
            ELSE
            \* self.suffixes is a set, never None: the test always runs
            LET split == called \o Ev("splitext", value)
            IN  IF ~PyIn(ospath_splitext_ext(value), self.suffixes)
                THEN Raise("ValueError", split)
                ELSE Return(split)

\* a Path is validated as its str first (an exception of that call
\* propagates); when that call returns, the checks go on with the Path
RECURSIVE PathValidator_validate(_, _, _)
PathValidator_validate(self, value, files) ==
    LET entered == Ev("validate", value)
    IN  IF ~isinstance(value, {"str", "Path"}) THEN Raise("TypeError", entered)
        ELSE
        LET inner == IF isinstance(value, {"Path"})
                     THEN PathValidator_validate(self, str(value), files)
                     ELSE Return(<<>>)
        IN  IF inner.exc # "None" THEN Raise(inner.exc, entered \o inner.trace)
            ELSE PathValidator_checks(self, value, files, entered \o inner.trace)

----------------------------------------------------------------------------
(* Dispatch on the class of the rule *)

\* cls(*args, predicate=predicate)
New(cls, args, predicate) ==
    LET arg(i) == IF i <= Len(args) THEN args[i] ELSE PyNone
    IN  CASE cls = "OneOf" -> OneOf_init(args)
          [] cls = "NumberValidator" -> NumberValidator_init(arg(1), arg(2))
          [] cls = "StringValidator" -> StringValidator_init(arg(1), arg(2), predicate)
          [] cls = "PathValidator" -> PathValidator_init(args, predicate)

\* self.validate(value)
validate(self, value, files) ==
    CASE self.cls = "OneOf" -> OneOf_validate(self, value)
      [] self.cls = "NumberValidator" -> NumberValidator_validate(self, value)
      [] self.cls = "StringValidator" -> StringValidator_validate(self, value, files)
      [] self.cls = "PathValidator" -> PathValidator_validate(self, value, files)


----------------------------------------------------------------------------
(* Validator: the descriptor protocol *)

\* getattr(obj, name) and setattr(obj, name, value) on an instance whose
\* attributes are the function obj
hasattr(obj, name) == name \in DOMAIN obj
setattr(obj, name, value) ==
    [k \in (DOMAIN obj) \cup {name} |-> IF k = name THEN value ELSE obj[k]]

\* mutant: the name of the first binding is kept
Validator_set_name_keep_first(self, name) ==
    IF self.private_name = Unbound
    THEN [self EXCEPT !.private_name = "_" \o name]
    ELSE self

\* self.private_name = '_' + name
Validator_set_name(self, name) == [self EXCEPT !.private_name = "_" \o name]

\* return getattr(obj, self.private_name)
Validator_get(self, obj) ==
    IF hasattr(obj, self.private_name)
    THEN [exc |-> "None", result |-> obj[self.private_name]]
    ELSE [exc |-> "AttributeError", result |-> PyNone]

\* mutant: the value is stored before it is validated
Validator_set_store_first(self, obj, value, files) ==
    [exc |-> validate(self, value, files).exc, self |-> self,
     obj |-> setattr(obj, self.private_name, value)]

\* mutant: the value is kept on the rule instance, which every instance shares
Validator_set_on_rule(self, obj, value, files) ==
    LET out == validate(self, value, files)
    IN  IF out.exc # "None" THEN [exc |-> out.exc, self |-> self, obj |-> obj]
        ELSE [exc |-> "None", obj |-> obj,
              self |-> [k \in (DOMAIN self) \cup {"value"} |->
                           IF k = "value" THEN value ELSE self[k]]]

\* self.validate(value); setattr(obj, self.private_name, value)
Validator_set(self, obj, value, files) ==
    LET out == validate(self, value, files)
    IN  IF out.exc # "None" THEN [exc |-> out.exc, self |-> self, obj |-> obj]
        ELSE [exc |-> "None", self |-> self,
              obj |-> setattr(obj, self.private_name, value)]

\* type.__new__ calls __set_name__ of every descriptor of the class body, in
\* the order of the body
RECURSIVE BindAll(_, _)
BindAll(rs, body) ==
    IF body = <<>> THEN rs
    ELSE BindAll([rs EXCEPT ![body[1].rule] =
                      Validator_set_name(rs[body[1].rule], body[1].name)],
                 Tail(body))

----------------------------------------------------------------------------
(* Inputs drawn by the specifications *)

Seqs(S, n) == UNION {[1..k -> S] : k \in 0..n}

Numbers ==
    {PyInt(n) : n \in (-MaxNum)..MaxNum}
        \cup {PyFloat(h) : h \in (-(2 * MaxNum))..(2 * MaxNum)}

AList == PyList(<<PyStr(<<".", "a">>), PyStr(<<".", "A">>)>>)
isfile == PyFunc("isfile")
islower == PyFunc("islower")

OneOfOptions == {PyInt(1), PyFloat(2), PyFloat(1), PyStr(<<"a">>), AList}
BoundValues == {PyNone, PyFloat(1)} \cup {PyInt(n) : n \in (-MaxNum)..MaxNum}
SizeValues == {PyNone, PyInt(1), PyInt(2)}
SuffixArgs ==
    { <<>>,
      <<PyStr(<<".", "a">>)>>,
      <<PyStr(<<".", "a">>), PyStr(<<".", "A">>), PyStr(<<".", "a">>)>>,
      <<PyStr(<<".", "a">>), isfile>>,
      <<AList>>,
      <<AList, isfile>> }

Call(cls, args, predicate) == [cls |-> cls, args |-> args, predicate |-> predicate]

CtorCalls ==
    {Call("OneOf", a, PyNone) : a \in Seqs(OneOfOptions, MaxOpts)}
        \cup {Call("NumberValidator", a, PyNone) : a \in Seqs(BoundValues, 2)}
        \cup {Call("StringValidator", a, p) :
                 a \in Seqs(SizeValues, 2), p \in {PyNone, islower, isfile}}
        \cup {Call("PathValidator", a, p) :
                 a \in SuffixArgs, p \in {PyNone, islower, isfile}}

PathValues ==
    {PyPath(<<<<"a", ".", "a">>>>), PyPath(<<<<"a">>>>), PyPath(<<<<"A">>, <<"a">>>>),
     PyPath(<<>>)}
TextValues == {PyStr(s) : s \in Texts(MaxLen)}
CommonValues ==
    {PyNone, PyInt(1), PyFloat(1), PyBool(TRUE), PyStr(<<"a">>),
     PyStr(<<"a", ".", "a">>), PyPath(<<<<"a", ".", "a">>>>), AList}

ValuesFor(cls) ==
    CASE cls = "OneOf" -> CommonValues \cup OneOfOptions \cup {PyInt(0)}
      [] cls = "NumberValidator" -> CommonValues \cup Numbers \cup {PyBool(FALSE)}
      [] cls = "StringValidator" -> CommonValues \cup TextValues
      [] cls = "PathValidator" -> CommonValues \cup TextValues \cup PathValues
      [] OTHER -> {}

----------------------------------------------------------------------------
(* Specification SpecValidate: one rule is constructed, then validate is   *)
(* called on it with one value after another while the filesystem changes  *)
(* between the calls.                                                      *)

Idle == [op |-> "idle"]
NoCall == [cls |-> "None"]

InitValidate ==
    /\ rules = [r \in {"r"} |-> NoRule]
    /\ fs = [p \in FsNames |-> "absent"]
    /\ classes = <<>>
    /\ objs = <<>>
    /\ last = [op |-> "start"]
    /\ hist = [ctor |-> NoCall]

\* rule = cls(*args, predicate=predicate)
Construct(c) ==
    /\ last.op = "start"
    /\ LET made == New(c.cls, c.args, c.predicate)
       IN  /\ rules' = [rules EXCEPT !["r"] = made.self]
           /\ last' = [op |-> "init", exc |-> made.exc]
    /\ hist' = [ctor |-> c]
    /\ UNCHANGED <<fs, classes, objs>>

\* rule.validate(value)
Validate(value) ==
    /\ last.op \in {"init", "idle"}
    /\ rules["r"].cls # "None"
    /\ LET out == validate(rules["r"], value, fs)
       IN  last' = [op |-> "validate", value |-> value, exc |-> out.exc,
                    trace |-> out.trace]
    /\ UNCHANGED <<rules, fs, classes, objs, hist>>

\* the caller takes the outcome of the call
Done ==
    /\ last.op \in {"validate", "set", "get"}
    /\ last' = Idle
    /\ UNCHANGED <<rules, fs, classes, objs, hist>>

\* a file or directory is created or removed
FsSet(p, kind) ==
    /\ last.op \in {"start", "idle"}
    /\ fs[p] # kind
    /\ fs' = [fs EXCEPT ![p] = kind]
    /\ UNCHANGED <<rules, classes, objs, last, hist>>

NextValidate ==
    \/ \E c \in CtorCalls : Construct(c)
    \/ \E value \in ValuesFor(rules["r"].cls) : Validate(value)
    \/ Done
    \/ \E p \in FsNames, kind \in FsKinds : FsSet(p, kind)

SpecValidate == InitValidate /\ [][NextValidate]_vars


----------------------------------------------------------------------------
(* Classes with validated fields, and their instances *)

Unset == [t |-> "unset", v |-> 0]
Field(name, rule) == [name |-> name, rule |-> rule]

\* the class each instance is an instance of
ClassOf(o) ==
    CASE o \in {"o1", "o2"} -> "K"
      [] o = "p1" -> "K1"
      [] o = "p2" -> "K2"

HasField(body, name) == \E i \in DOMAIN body : body[i].name = name
RuleOf(body, name) == body[CHOOSE i \in DOMAIN body : body[i].name = name].rule
FieldNames(body) == {body[i].name : i \in DOMAIN body}

\* the name a class body binds a rule to last (history)
LastNameFor(body, r, otherwise) ==
    LET I == {i \in DOMAIN body : body[i].rule = r}
    IN  IF I = {} THEN otherwise ELSE body[SetMax(I)].name

NoHistory(os, rs) ==
    [accepted |-> [o \in os |-> [n \in {"x", "y"} |-> Unset]],
     recent |-> [o \in os |-> Unset],
     lastBound |-> [r \in rs |-> Unbound]]

\* class k: name1 = rule1; name2 = rule2; ...
DefineClass(k, body) ==
    /\ last.op = "idle"
    /\ classes[k] = <<>>
    /\ classes' = [classes EXCEPT ![k] = body]
    /\ rules' = BindAll(rules, body)
    /\ hist' = [NoHistory(DOMAIN objs, DOMAIN rules) EXCEPT
                   !.lastBound = [r \in DOMAIN rules |->
                                     LastNameFor(body, r, hist.lastBound[r])]]
    /\ UNCHANGED <<fs, objs, last>>

\* o.name = value
Set(o, name, value) ==
    /\ last.op = "idle"
    /\ HasField(classes[ClassOf(o)], name)
    /\ LET r == RuleOf(classes[ClassOf(o)], name)
           res == Validator_set(rules[r], objs[o], value, fs)
       IN  /\ rules' = [rules EXCEPT ![r] = res.self]
           /\ objs' = [objs EXCEPT ![o] = res.obj]
           /\ last' = [op |-> "set", obj |-> o, field |-> name, value |-> value,
                       exc |-> res.exc, before |-> objs[o]]
           /\ hist' = IF res.exc = "None"
                      THEN [hist EXCEPT !.accepted[o][name] = value,
                                        !.recent[o] = value]
                      ELSE hist
    /\ UNCHANGED <<fs, classes>>

\* o.name
Get(o, name) ==
    /\ last.op = "idle"
    /\ HasField(classes[ClassOf(o)], name)
    /\ LET r == RuleOf(classes[ClassOf(o)], name)
           res == Validator_get(rules[r], objs[o])
       IN  last' = [op |-> "get", obj |-> o, field |-> name, exc |-> res.exc,
                    result |-> res.result]
    /\ UNCHANGED <<rules, fs, classes, objs, hist>>

----------------------------------------------------------------------------
(* Specification SpecAttr: class K has the fields x and y, each with a     *)
(* rule of its own; its instances o1 and o2 are written and read.          *)

AttrCalls ==
    { Call("OneOf", <<PyStr(<<"a">>), PyInt(1)>>, PyNone),
      Call("NumberValidator", <<PyInt(0), PyInt(1)>>, PyNone),
      Call("StringValidator", <<PyInt(1), PyInt(2)>>, islower),
      Call("PathValidator", <<PyStr(<<".", "a">>)>>, isfile) }

WriteValues ==
    {PyStr(<<"a">>), PyStr(<<"a", "a">>), PyInt(1), PyFloat(1), PyInt(2),
     PyStr(<<"a", ".", "a">>), PyPath(<<<<"a", ".", "a">>>>)}

InitAttr ==
    /\ \E c1 \in AttrCalls, c2 \in AttrCalls :
          rules = [r \in {"r1", "r2"} |->
                      IF r = "r1" THEN New(c1.cls, c1.args, c1.predicate).self
                      ELSE New(c2.cls, c2.args, c2.predicate).self]
    /\ fs = [p \in FsNames |-> "absent"]
    /\ classes = [k \in {"K"} |-> <<>>]
    /\ objs = [o \in {"o1", "o2"} |-> <<>>]
    /\ last = Idle
    /\ hist = NoHistory({"o1", "o2"}, {"r1", "r2"})

NextAttr ==
    \/ DefineClass("K", <<Field("x", "r1"), Field("y", "r2")>>)
    \/ \E o \in DOMAIN objs, name \in {"x", "y"}, value \in WriteValues :
          Set(o, name, value)
    \/ \E o \in DOMAIN objs, name \in {"x", "y"} : Get(o, name)
    \/ Done
    \/ \E kind \in FsKinds : FsSet(<<"a", ".", "a">>, kind)

SpecAttr == InitAttr /\ [][NextAttr]_vars

----------------------------------------------------------------------------
(* Specification SpecRebind: one rule instance is the value of every field *)
(* of the classes K1 and K2, which are defined one after the other; their  *)
(* instances p1 and p2 are written and read in between.                    *)

RebindCalls ==
    { Call("OneOf", <<PyStr(<<"a">>), PyInt(1)>>, PyNone),
      Call("NumberValidator", <<PyInt(0), PyInt(1)>>, PyNone) }

RebindValues == {PyInt(1), PyFloat(1), PyInt(2)}

SharedBodies ==
    { <<Field("x", "r")>>, <<Field("y", "r")>>,
      <<Field("x", "r"), Field("y", "r")>>,
      <<Field("y", "r"), Field("x", "r")>> }

InitRebind ==
    /\ \E c \in RebindCalls :
          rules = [r \in {"r"} |-> New(c.cls, c.args, c.predicate).self]
    /\ fs = [p \in FsNames |-> "absent"]
    /\ classes = [k \in {"K1", "K2"} |-> <<>>]
    /\ objs = [o \in {"p1", "p2"} |-> <<>>]
    /\ last = Idle
    /\ hist = NoHistory({"p1", "p2"}, {"r"})

NextRebind ==
    \/ \E k \in DOMAIN classes, body \in SharedBodies : DefineClass(k, body)
    \/ \E o \in DOMAIN objs, name \in {"x", "y"}, value \in RebindValues :
          Set(o, name, value)
    \/ \E o \in DOMAIN objs, name \in {"x", "y"} : Get(o, name)
    \/ Done

SpecRebind == InitRebind /\ [][NextRebind]_vars

----------------------------------------------------------------------------
(* Claims about validate, under SpecValidate *)

\* what the constructor call of the rule gave for its i-th positional argument
CtorArg(i) == IF i <= Len(hist.ctor.args) THEN hist.ctor.args[i] ELSE PyNone
Validated(cls) == last.op = "validate" /\ hist.ctor.cls = cls
Twice(x) == IF x.t = "float" THEN x.v ELSE IF x.t = "int" THEN 2 * x.v
            ELSE IF x.v THEN 2 ELSE 0
Present(x) == x.t # "NoneType"
Holds(predicate, value) == CallPredicate(predicate, value, fs) = "True"
Count(trace, what) == Cardinality({i \in DOMAIN trace : trace[i].call = what})

\* C6: NumberValidator(min, max).validate(v) raises TypeError when v is not
\* an int or a float (a bool is an int); otherwise ValueError when min is
\* given and v < min; otherwise ValueError when max is given and v > max;
\* otherwise it returns.  The bounds are inclusive: v = min and v = max pass
\* when the other bound allows it.
C6_NumberOutcome ==
    Validated("NumberValidator") =>
        LET v == last.value
            min == CtorArg(1)
            max == CtorArg(2)
            number == v.t \in {"int", "float", "bool"}
            expected ==
                IF ~number THEN "TypeError"
                ELSE IF Present(min) /\ Twice(v) < Twice(min) THEN "ValueError"
                ELSE IF Present(max) /\ Twice(v) > Twice(max) THEN "ValueError"
                ELSE "None"
        IN  /\ last.exc = expected
            /\ (number /\ Present(min) /\ Twice(v) = Twice(min)
                  /\ (Present(max) => Twice(min) <= Twice(max)))
               => last.exc = "None"
            /\ (number /\ Present(max) /\ Twice(v) = Twice(max)
                  /\ (Present(min) => Twice(min) <= Twice(max)))
               => last.exc = "None"

\* C6 witness: a value equal to the minimum of a rule with both bounds passed
C6_Witness ==
    /\ Validated("NumberValidator")
    /\ Present(CtorArg(1)) /\ Present(CtorArg(2))
    /\ last.value.t = "float" /\ CtorArg(1).t = "int"
    /\ Twice(last.value) = Twice(CtorArg(1))
    /\ Twice(CtorArg(1)) < Twice(CtorArg(2))
    /\ last.exc = "None"

\* C7: StringValidator(minsize, maxsize, pred).validate(v) raises TypeError
\* when v is not a str; otherwise ValueError when minsize is given and
\* len(v) < minsize; otherwise ValueError when maxsize is given and
\* len(v) > maxsize; otherwise ValueError when pred is given and pred(v) is
\* false; otherwise it returns.  The predicate is called only with a str
\* that satisfies both length bounds.
C7_StringOutcome ==
    Validated("StringValidator") =>
        LET v == last.value
            minsize == CtorArg(1)
            maxsize == CtorArg(2)
            pred == hist.ctor.predicate
            text == v.t = "str"
            fits == /\ text
                    /\ Present(minsize) => Len(v.v) >= minsize.v
                    /\ Present(maxsize) => Len(v.v) <= maxsize.v
            expected ==
                IF ~text THEN "TypeError"
                ELSE IF Present(minsize) /\ Len(v.v) < minsize.v THEN "ValueError"
                ELSE IF Present(maxsize) /\ Len(v.v) > maxsize.v THEN "ValueError"
                ELSE IF Present(pred) /\ ~Holds(pred, v) THEN "ValueError"
                ELSE "None"
        IN  /\ last.exc = expected
            /\ Count(last.trace, "predicate") > 0 => fits
            /\ \A i \in DOMAIN last.trace : last.trace[i].arg = v
            /\ (fits /\ Present(pred)) => Count(last.trace, "predicate") = 1

\* C7 witness: a str within both length bounds rejected by the predicate
C7_Witness ==
    /\ Validated("StringValidator")
    /\ Present(CtorArg(1)) /\ Present(CtorArg(2))
    /\ hist.ctor.predicate = islower
    /\ last.value.t = "str"
    /\ Len(last.value.v) >= CtorArg(1).v /\ Len(last.value.v) <= CtorArg(2).v
    /\ last.exc = "ValueError"
    /\ Count(last.trace, "predicate") = 1

\* the value is equal to one of the options the rule was constructed from
Member(value, options) ==
    \E i \in DOMAIN options :
        \/ options[i].t = value.t /\ options[i].v = value.v
        \/ /\ {options[i].t, value.t} \subseteq {"int", "float", "bool"}
           /\ Twice(options[i]) = Twice(value)

ExtOf(text) ==
    LET seps == {i \in DOMAIN text : text[i] = "/"}
        from == IF seps = {} THEN 1 ELSE SetMax(seps) + 1
        dots == {i \in from..Len(text) : text[i] = "."}
        dot == IF dots = {} THEN 0 ELSE SetMax(dots)
    IN  IF dots # {} /\ \E k \in from..(dot - 1) : text[k] # "."
        THEN [k \in 1..(Len(text) - dot + 1) |-> text[dot + k - 1]]
        ELSE <<>>
TextOf(value) == IF value.t = "Path" THEN fspath(value) ELSE value.v
Exists(value) == TextOf(value) \in DOMAIN fs /\ fs[TextOf(value)] # "absent"

\* C2: a dimension of the configuration that is left out constrains nothing:
\* NumberValidator() passes every number, StringValidator() passes every
\* str, and PathValidator() with no suffix and no predicate passes every str
\* whose path exists.
C2_AbsentConstrainsNothing ==
    (last.op = "validate" /\ hist.ctor.args = <<>> /\ ~Present(hist.ctor.predicate)) =>
        /\ (hist.ctor.cls = "NumberValidator"
              /\ last.value.t \in {"int", "float", "bool"}) => last.exc = "None"
        /\ (hist.ctor.cls = "StringValidator" /\ last.value.t = "str")
              => last.exc = "None"
        /\ (hist.ctor.cls = "PathValidator" /\ last.value.t = "str"
              /\ Exists(last.value)) => last.exc = "None"

\* C3: PathValidator with suffix set S and predicate p: validate(v) raises
\* TypeError when v is neither a str nor a Path; otherwise FileExistsError
\* when the path does not exist; otherwise it returns if and only if p (when
\* given) holds for v and the extension of v is in S, and raises ValueError
\* if not.
C3_PathOutcome ==
    Validated("PathValidator") =>
        LET v == last.value
            S == rules["r"].suffixes
            p == rules["r"].predicate
            expected ==
                IF v.t \notin {"str", "Path"} THEN "TypeError"
                ELSE IF ~Exists(v) THEN "FileExistsError"
                ELSE IF (Present(p) => Holds(p, v)) /\ PyStr(ExtOf(TextOf(v))) \in S
                THEN "None"
                ELSE "ValueError"
        IN  last.exc = expected

\* the suffix strings a constructor call names: its positional arguments
\* before the predicate, a list among them standing for its items
RECURSIVE GivenSuffixes(_)
GivenSuffixes(args) ==
    IF args = <<>> THEN {}
    ELSE LET x == args[1]
         IN  (CASE x.t = "str" -> {x}
                [] x.t = "list" -> {x.v[i] : i \in DOMAIN x.v}
                [] OTHER -> {})
             \cup GivenSuffixes(Tail(args))

\* C4: PathValidator(suffix or list of suffixes, predicate) constructs a rule
\* whose suffixes are exactly the given suffix strings and whose predicate
\* is the given function, so that an existing path that has one of those
\* extensions and satisfies the predicate passes validate.
C4_SuffixesThenPredicate ==
    (/\ last.op = "init" /\ hist.ctor.cls = "PathValidator"
     /\ Len(hist.ctor.args) = 2 /\ hist.ctor.args[2].t = "function"
     /\ ~Present(hist.ctor.predicate)) =>
        /\ last.exc = "None"
        /\ rules["r"].suffixes = GivenSuffixes(hist.ctor.args)
        /\ rules["r"].predicate = hist.ctor.args[2]
        /\ \A v \in TextValues :
              (/\ Exists(v)
               /\ Holds(hist.ctor.args[2], v)
               /\ PyStr(ExtOf(v.v)) \in GivenSuffixes(hist.ctor.args))
              => PathValidator_validate(rules["r"], v, fs).exc = "None"

\* C5: validate(p) of a Path p re-enters validate at most once, ends as
\* validate of the text form of p ends (it returns, or raises the same
\* exception), and makes its existence, predicate and suffix checks on the
\* text form.
C5_PathAsItsText ==
    (Validated("PathValidator") /\ last.value.t = "Path") =>
        /\ Count(last.trace, "validate") <= 2
        /\ last.exc = PathValidator_validate(rules["r"], str(last.value), fs).exc
        /\ \E i \in DOMAIN last.trace :
              last.trace[i].call = "exists" /\ last.trace[i].arg = str(last.value)

----------------------------------------------------------------------------
(* Claims about validated fields, under SpecAttr and SpecRebind *)

\* what reading field name of instance o gives in the current state
Read(o, name) ==
    Validator_get(rules[RuleOf(classes[ClassOf(o)], name)], objs[o])
Got(value) == [exc |-> "None", result |-> value]
Passes(o, name, value) ==
    validate(rules[RuleOf(classes[ClassOf(o)], name)], value, fs).exc = "None"

\* C1: a write to a validated field whose validate fails raises that error
\* and leaves the attributes of the instance as they were; a write whose
\* validate passes stores the candidate; so once a write to a field of an
\* instance has been accepted, reading the field gives the candidate of the
\* latest accepted write, whether or not it would still pass validate.
C1_WriteAllOrNothing ==
    /\ last.op = "set" =>
          IF Passes(last.obj, last.field, last.value)
          THEN /\ last.exc = "None"
               /\ Read(last.obj, last.field) = Got(last.value)
          ELSE /\ last.exc \in {"TypeError", "ValueError", "FileExistsError"}
               /\ objs[last.obj] = last.before
    /\ \A o \in DOMAIN objs : \A name \in FieldNames(classes[ClassOf(o)]) :
          hist.accepted[o][name].t # "unset"
              => Read(o, name) = Got(hist.accepted[o][name])
    /\ (last.op = "get" /\ hist.accepted[last.obj][last.field].t # "unset")
          => /\ last.exc = "None"
             /\ last.result = hist.accepted[last.obj][last.field]

\* C1 witness: a read gives the Path accepted earlier although its file no
\* longer exists, so that writing it again would be rejected
C1_Witness ==
    /\ last.op = "get"
    /\ last.exc = "None"
    /\ last.result = PyPath(<<<<"a", ".", "a">>>>)
    /\ ~Passes(last.obj, last.field, last.result)
    /\ fs[<<"a", ".", "a">>] = "absent"

\* C9: a write to a field of one instance, accepted or rejected, changes
\* neither the attributes of any other instance (nor what reading its fields
\* gives) nor the rule; the attributes of an instance change only in an
\* accepted write to that instance.
C9_OtherInstancesUntouched ==
    [][ /\ (last.op = "idle" /\ last'.op = "set") =>
              /\ rules' = rules
              /\ \A b \in DOMAIN objs \ {last'.obj} :
                    /\ objs'[b] = objs[b]
                    /\ \A name \in FieldNames(classes[ClassOf(b)]) :
                          Validator_get(rules'[RuleOf(classes[ClassOf(b)], name)],
                                        objs'[b])
                              = Read(b, name)
        /\ \A o \in DOMAIN objs :
              objs'[o] # objs[o] =>
                  /\ last.op = "idle" /\ last'.op = "set"
                  /\ last'.obj = o /\ last'.exc = "None"
      ]_vars

\* C9 witness: a write to o1 was accepted while the same field of o2 holds
\* another accepted value
C9_Witness ==
    /\ last.op = "set" /\ last.obj = "o1" /\ last.exc = "None"
    /\ hist.accepted["o2"][last.field].t # "unset"
    /\ hist.accepted["o2"][last.field] # last.value
    /\ Read("o2", last.field) = Got(hist.accepted["o2"][last.field])

=============================================================================
